---- MODULE Spec2Model ----
(***************************************************************************)
(* The range-check circuit of src/range_check/example1b.rs: MyCircuit<F,   *)
(* RANGE> with one advice column, one selector q_range_check and one gate  *)
(* "range check", run through the mock prover (configure, synthesize,      *)
(* verify).                                                                *)
(***************************************************************************)
EXTENDS Integers, Sequences, FiniteSets, TLC

VARIABLES
    pc,              \* phase of MockProver::run / verify
    RANGE,           \* the const generic RANGE of MyCircuit
    assigned_value,  \* MyCircuit.assigned_value : Value<Assigned<F>>
    cs,              \* the ConstraintSystem mutated by configure
    config,          \* the MyConfig returned by configure
    selectors,       \* the prover's selector bits: selector -> row -> BOOLEAN
    advice,          \* the prover's advice cells: column -> row -> CellValue
    regions,         \* the regions opened by the layouter, in order
    assign_calls,    \* the assign_advice calls made, in order
    run_result,      \* what MockProver::run returned
    verify_result    \* what prover.verify() returned

vars == <<pc, RANGE, assigned_value, cs, config, selectors, advice, regions,
          assign_calls, run_result, verify_result>>

----------------------------------------------------------------------------
(* Bounds of the model. *)

\* RANGE is drawn from 0..MaxRange.
MaxRange == 8

\* The field is the prime field of the largest prime below 2^FieldBits
\* (pasta::Fp is a 255-bit prime field).
FieldBits == 5

----------------------------------------------------------------------------
(* The field F: PrimeField. *)

IsPrime(n) == n >= 2 /\ \A d \in 2..(n - 1) : n % d # 0

Modulus ==
    CHOOSE p \in 2..(2^FieldBits - 1) :
        IsPrime(p) /\ \A q \in (p + 1)..(2^FieldBits - 1) : ~IsPrime(q)

Fp == 0..(Modulus - 1)

\* F::from(i as u64)
FromU64(i) == i % Modulus

FAdd(a, b) == (a + b) % Modulus
FNeg(a) == (Modulus - a) % Modulus
FMul(a, b) == (a * b) % Modulus

\* Value<Assigned<F>>: unknown (the Default) or known.
Unknown == [tag |-> "Unknown"]
Known(f) == [tag |-> "Known", v |-> f]

----------------------------------------------------------------------------
(* Expression<F> *)

Constant(c) == [tag |-> "Constant", c |-> c]
SelectorQuery(s) == [tag |-> "Selector", index |-> s]
AdviceQuery(col, rot) == [tag |-> "Advice", column |-> col, rotation |-> rot]
Negated(a) == [tag |-> "Negated", a |-> a]
Sum(a, b) == [tag |-> "Sum", a |-> a, b |-> b]
Product(a, b) == [tag |-> "Product", a |-> a, b |-> b]

\* a - b on expressions
Sub(a, b) == Sum(a, Negated(b))

\* Rotation::cur()
RotationCur == 0

----------------------------------------------------------------------------
(* MyCircuit::configure *)

\* k of the test: 2^k rows
k == 4
NumRows == 2^k
Rows == 0..(NumRows - 1)

EmptyCS == [num_advice_columns |-> 0, num_selectors |-> 0, gates |-> <<>>]

\* let advice_column = cs.advice_column();  (the first advice column)
advice_column == EmptyCS.num_advice_columns

\* let q_range_check = cs.selector();  (the first selector)
q_range_check == EmptyCS.num_selectors

\* let q = virtual_cells.query_selector(q_range_check);
q == SelectorQuery(q_range_check)

value_next == AdviceQuery(advice_column, RotationCur + 1)

\* let value = virtual_cells.query_advice(advice_column, Rotation::cur());
value == AdviceQuery(advice_column, RotationCur)

\* (lo..hi).fold(init, |expr, i| expr * (Constant(F::from(i)) - value))
RECURSIVE Fold(_, _, _)
Fold(expr, i, hi) ==
    IF i >= hi THEN expr
    ELSE Fold(Product(expr, Sub(Constant(FromU64(i)), value)), i + 1, hi)

rc_polynomial_from0(R) == Fold(value, 0, R)
rc_polynomial_from2(R) == Fold(value, 2, R)
rc_polynomial_inclusive(R) == Fold(value, 1, R + 1)

\* let rc_polynomial = (1..RANGE).fold(value.clone(), ...)
rc_polynomial(R) == Fold(value, 1, R)

\* A gate without a selector is enforced at every row.
NoSelector == -1

with_selector_unguarded(sel, constraints) ==
    [selector |-> NoSelector, constraints |-> constraints]

\* Constraints::with_selector(q, [("range check", rc_polynomial)])
with_selector(sel, constraints) ==
    [selector |-> sel.index, constraints |-> constraints]

\* cs.create_gate("range check", |virtual_cells| ...)
create_gate(name, built) ==
    [name |-> name, selector |-> built.selector, constraints |-> built.constraints]

range_check_gate(R) ==
    create_gate("range check",
        with_selector(q, << [name |-> "range check", poly |-> rc_polynomial(R)] >>))

Configure ==
    /\ pc = "new"
    /\ cs' = [num_advice_columns |-> cs.num_advice_columns + 1,
              num_selectors |-> cs.num_selectors + 1,
              gates |-> Append(cs.gates, range_check_gate(RANGE))]
    /\ config' = [advice_column |-> cs.num_advice_columns,
                  q_range_check |-> cs.num_selectors]
    /\ pc' = "configured"
    /\ UNCHANGED <<RANGE, assigned_value, selectors, advice, regions,
                   assign_calls, run_result, verify_result>>

----------------------------------------------------------------------------
(* MyCircuit::without_witnesses and MyCircuit::synthesize *)

\* Self::default(): every witness value Unknown
WithoutWitnesses ==
    /\ pc = "new"
    /\ assigned_value' = Unknown
    /\ UNCHANGED <<pc, RANGE, cs, config, selectors, advice, regions,
                   assign_calls, run_result, verify_result>>

Unassigned == [tag |-> "Unassigned"]
Assigned(f) == [tag |-> "Assigned", v |-> f]

\* let offset = 0;
offset == 0

\* The single region is placed at the first row.
RegionStart == 0

enable_every_row(sels, sel, row) == [sels EXCEPT ![sel] = [r \in Rows |-> TRUE]]

\* config.q_range_check.enable(&mut region, offset)?
\*   self.selectors[selector.0][row] = true;
enable(sels, sel, row) == [sels EXCEPT ![sel][row] = TRUE]

assign_advice_default_zero(adv, col, row, to) ==
    [ok |-> TRUE,
     advice |-> [adv EXCEPT ![col][row] =
                    Assigned(IF to.tag = "Unknown" THEN 0 ELSE to.v)]]

\* region.assign_advice(|| "value", config.advice_column, offset, || self.assigned_value)
\*   CellValue::Assigned(to().into_field().evaluate().assign()?)
assign_advice(adv, col, row, to) ==
    IF to.tag = "Unknown"
    THEN [ok |-> FALSE, advice |-> adv]
    ELSE [ok |-> TRUE, advice |-> [adv EXCEPT ![col][row] = Assigned(to.v)]]

\* layouter.assign_region(|| "Assign value", |mut region| { ... })?; Ok(())
Synthesize ==
    /\ pc = "configured"
    /\ LET row == RegionStart + offset
           assigned == assign_advice(advice, config.advice_column, row, assigned_value)
       IN /\ selectors' = enable(selectors, config.q_range_check, row)
          /\ advice' = assigned.advice
          /\ assign_calls' = Append(assign_calls,
                                    [column |-> config.advice_column, row |-> row])
          /\ regions' = Append(regions,
                               [name |-> "Assign value", start |-> RegionStart,
                                rows |-> {row}])
          /\ run_result' = IF assigned.ok THEN "Ok" ELSE "Err"
          /\ pc' = IF assigned.ok THEN "synthesized" ELSE "failed"
    /\ UNCHANGED <<RANGE, assigned_value, cs, config, verify_result>>

----------------------------------------------------------------------------
(* The verifier: MockProver::verify *)

OkV(f) == [ok |-> TRUE, v |-> f]
ErrV(e) == [ok |-> FALSE, err |-> e]

\* evaluate(expr, table, row)
RECURSIVE Eval(_, _, _, _)
Eval(e, sels, adv, row) ==
    CASE e.tag = "Constant" -> OkV(e.c)
      [] e.tag = "Selector" -> OkV(IF sels[e.index][row] THEN 1 ELSE 0)
      [] e.tag = "Advice" ->
            IF (row + e.rotation) \notin Rows THEN ErrV("RowOutOfRange")
            ELSE IF adv[e.column][row + e.rotation].tag = "Unassigned"
                 THEN ErrV("CellUnassigned")
                 ELSE OkV(adv[e.column][row + e.rotation].v)
      [] e.tag = "Negated" ->
            LET a == Eval(e.a, sels, adv, row)
            IN IF a.ok THEN OkV(FNeg(a.v)) ELSE a
      [] e.tag = "Sum" ->
            LET a == Eval(e.a, sels, adv, row)
                b == Eval(e.b, sels, adv, row)
            IN IF ~a.ok THEN a ELSE IF ~b.ok THEN b ELSE OkV(FAdd(a.v, b.v))
      [] e.tag = "Product" ->
            LET a == Eval(e.a, sels, adv, row)
                b == Eval(e.b, sels, adv, row)
            IN IF ~a.ok THEN a ELSE IF ~b.ok THEN b ELSE OkV(FMul(a.v, b.v))

\* The advice cells an expression reads, in the order it touches them.
RECURSIVE Queries(_)
Queries(e) ==
    CASE e.tag = "Advice" -> << [column |-> e.column, rotation |-> e.rotation] >>
      [] e.tag = "Negated" -> Queries(e.a)
      [] e.tag \in {"Sum", "Product"} -> Queries(e.a) \o Queries(e.b)
      [] OTHER -> << >>

\* Each cell is cited once, at its first touch.
RECURSIVE Dedup(_)
Dedup(s) ==
    IF s = << >> THEN << >>
    ELSE LET front == Dedup(SubSeq(s, 1, Len(s) - 1))
             last == s[Len(s)]
         IN IF \E i \in 1..Len(front) : front[i] = last
            THEN front ELSE Append(front, last)

HexDigit(d) ==
    CASE d = 0 -> "0" [] d = 1 -> "1" [] d = 2 -> "2" [] d = 3 -> "3"
      [] d = 4 -> "4" [] d = 5 -> "5" [] d = 6 -> "6" [] d = 7 -> "7"
      [] d = 8 -> "8" [] d = 9 -> "9" [] d = 10 -> "a" [] d = 11 -> "b"
      [] d = 12 -> "c" [] d = 13 -> "d" [] d = 14 -> "e" [] d = 15 -> "f"

RECURSIVE HexDigits(_)
HexDigits(n) ==
    IF n < 16 THEN HexDigit(n) ELSE HexDigits(n \div 16) \o HexDigit(n % 16)

\* The field value formatted in hexadecimal.
format_value(f) == "0x" \o HexDigits(f)

\* The failure's location: the region that wrote the row, else the bare row.
Location(regs, row) ==
    IF \E i \in 1..Len(regs) : row \in regs[i].rows
    THEN LET i == CHOOSE j \in 1..Len(regs) :
                      /\ row \in regs[j].rows
                      /\ \A m \in 1..(j - 1) : row \notin regs[m].rows
         IN [tag |-> "InRegion",
             region |-> [index |-> i - 1, name |-> regs[i].name],
             offset |-> row - regs[i].start]
    ELSE [tag |-> "OutsideRegion", row |-> row]

CellValues(poly, adv, row) ==
    LET cells == Dedup(Queries(poly))
    IN [i \in 1..Len(cells) |->
           [column |-> [column_type |-> "Advice", index |-> cells[i].column],
            rotation |-> cells[i].rotation,
            value |-> format_value(adv[cells[i].column][row + cells[i].rotation].v)]]

\* A gate is enforced at a row when it has no selector or its selector is on.
Active(g, sels, row) == g.selector = NoSelector \/ sels[g.selector][row]

\* The failures of constraint ci of gate gi at one row (none, or one).
CheckConstraint(t, gi, ci, row) ==
    LET g == t.cs.gates[gi]
        c == g.constraints[ci]
        r == Eval(c.poly, t.selectors, t.advice, row)
        at == [constraint |-> [gate |-> [index |-> gi - 1, name |-> g.name],
                               index |-> ci - 1, name |-> c.name],
               location |-> Location(t.regions, row)]
    IN IF ~Active(g, t.selectors, row) THEN << >>
       ELSE IF ~r.ok
            THEN << [kind |-> IF r.err = "CellUnassigned"
                              THEN "CellNotAssigned" ELSE "RowOutOfRange",
                     constraint |-> at.constraint, location |-> at.location,
                     cell_values |-> << >>] >>
            ELSE IF r.v # 0
                 THEN << [kind |-> "ConstraintNotSatisfied",
                          constraint |-> at.constraint, location |-> at.location,
                          cell_values |-> CellValues(c.poly, t.advice, row)] >>
                 ELSE << >>

RECURSIVE ConstraintFailures(_, _, _, _)
ConstraintFailures(t, gi, ci, row) ==
    IF ci > Len(t.cs.gates[gi].constraints) THEN << >>
    ELSE CheckConstraint(t, gi, ci, row) \o ConstraintFailures(t, gi, ci + 1, row)

RECURSIVE GateFailures(_, _, _)
GateFailures(t, gi, row) ==
    IF gi > Len(t.cs.gates) THEN << >>
    ELSE ConstraintFailures(t, gi, 1, row) \o GateFailures(t, gi + 1, row)

RECURSIVE RowFailures(_, _)
RowFailures(t, row) ==
    IF row >= NumRows THEN << >>
    ELSE GateFailures(t, 1, row) \o RowFailures(t, row + 1)

\* verify(): Ok(()) when no failure was produced, else Err(failures), ordered
\* row-major, then by gate, then by constraint.
verify(t) ==
    LET failures == RowFailures(t, 0)
    IN [ok |-> failures = << >>, failures |-> failures]

Table == [cs |-> cs, selectors |-> selectors, advice |-> advice, regions |-> regions]

\* prover.verify() / prover.assert_satisfied() after MockProver::run(..).unwrap()
Verify ==
    /\ pc = "synthesized"
    /\ verify_result' = verify(Table)
    /\ pc' = "verified"
    /\ UNCHANGED <<RANGE, assigned_value, cs, config, selectors, advice, regions,
                   assign_calls, run_result>>

----------------------------------------------------------------------------
(* The circuit run through the mock prover. *)

NotRun == [tag |-> "none"]

Values == {Unknown} \cup {Known(f) : f \in Fp}

Init ==
    /\ pc = "new"
    /\ RANGE \in 0..MaxRange
    /\ assigned_value \in Values
    /\ cs = EmptyCS
    /\ config = [advice_column |-> NoSelector, q_range_check |-> NoSelector]
    /\ selectors = [s \in {q_range_check} |-> [r \in Rows |-> FALSE]]
    /\ advice = [c \in {advice_column} |-> [r \in Rows |-> Unassigned]]
    /\ regions = << >>
    /\ assign_calls = << >>
    /\ run_result = "none"
    /\ verify_result = NotRun

Next == WithoutWitnesses \/ Configure \/ Synthesize \/ Verify

Spec == Init /\ [][Next]_vars

----------------------------------------------------------------------------
(* The verifier applied to an arbitrary one-row table of the configured     *)
(* constraint system: any selector bit and any cell content at any row.     *)

CellValue == {Unassigned} \cup {Assigned(f) : f \in Fp}

InitGate ==
    /\ pc = "new"
    /\ RANGE \in 0..MaxRange
    /\ assigned_value = Unknown
    /\ cs = EmptyCS
    /\ config = [advice_column |-> NoSelector, q_range_check |-> NoSelector]
    /\ \E row \in Rows, bit \in BOOLEAN, cell \in CellValue :
          /\ selectors = [s \in {q_range_check} |->
                             [r \in Rows |-> IF r = row THEN bit ELSE FALSE]]
          /\ advice = [c \in {advice_column} |->
                          [r \in Rows |-> IF r = row THEN cell ELSE Unassigned]]
    /\ regions = << >>
    /\ assign_calls = << >>
    /\ run_result = "none"
    /\ verify_result = NotRun

VerifyTable ==
    /\ pc = "configured"
    /\ verify_result' = verify(Table)
    /\ pc' = "verified"
    /\ UNCHANGED <<RANGE, assigned_value, cs, config, selectors, advice, regions,
                   assign_calls, run_result>>

NextGate == Configure \/ VerifyTable

SpecGate == InitGate /\ [][NextGate]_vars

----------------------------------------------------------------------------
(* Vocabulary of the properties. *)

IsKnown == assigned_value.tag = "Known"

\* The witness lies in the integer interval [0, RANGE).
InRange == IsKnown /\ assigned_value.v \in 0..(RANGE - 1)

\* MockProver::run and verify() have both returned, and verify() returned Ok.
Satisfied == pc = "verified" /\ run_result = "Ok" /\ verify_result.ok

\* The run has ended: verify() returned, or MockProver::run returned Err.
Ended == pc \in {"verified", "failed"}

Max(a, b) == IF a >= b THEN a ELSE b

\* The absolute row a failure is located at.
FailureRow(f) ==
    IF f.location.tag = "InRegion"
    THEN regions[f.location.region.index + 1].start + f.location.offset
    ELSE f.location.row

\* The degree of an expression as a polynomial in the advice cell.
RECURSIVE Degree(_)
Degree(e) ==
    CASE e.tag = "Advice" -> 1
      [] e.tag = "Negated" -> Degree(e.a)
      [] e.tag = "Sum" -> Max(Degree(e.a), Degree(e.b))
      [] e.tag = "Product" -> Degree(e.a) + Degree(e.b)
      [] OTHER -> 0

\* The value of an expression with every advice cell holding x.
PolyAt(e, x) ==
    Eval(e, [s \in {q_range_check} |-> [r \in Rows |-> TRUE]],
            [c \in {advice_column} |-> [r \in Rows |-> Assigned(x)]], 0).v

RootSet(e) == {x \in Fp : PolyAt(e, x) = 0}

\* e is value * (lo - value) * ... * (hi - 1 - value), read from its last factor.
RECURSIVE IsChain(_, _, _)
IsChain(e, lo, hi) ==
    IF hi <= lo THEN e = AdviceQuery(0, 0)
    ELSE /\ e.tag = "Product"
         /\ e.b = [tag |-> "Sum", a |-> [tag |-> "Constant", c |-> hi - 1],
                   b |-> [tag |-> "Negated", a |-> AdviceQuery(0, 0)]]
         /\ IsChain(e.a, lo, hi - 1)

HexDigitValue(c) ==
    CASE c = "0" -> 0 [] c = "1" -> 1 [] c = "2" -> 2 [] c = "3" -> 3
      [] c = "4" -> 4 [] c = "5" -> 5 [] c = "6" -> 6 [] c = "7" -> 7
      [] c = "8" -> 8 [] c = "9" -> 9 [] c = "a" -> 10 [] c = "b" -> 11
      [] c = "c" -> 12 [] c = "d" -> 13 [] c = "e" -> 14 [] c = "f" -> 15
      [] OTHER -> -1

\* The number a string of hexadecimal digits denotes (-1 if it is not one).
RECURSIVE ParseHex(_)
ParseHex(str) ==
    IF Len(str) = 0 THEN -1
    ELSE LET d == HexDigitValue(SubSeq(str, Len(str), Len(str)))
         IN IF d < 0 THEN -1
            ELSE IF Len(str) = 1 THEN d
            ELSE LET front == ParseHex(SubSeq(str, 1, Len(str) - 1))
                 IN IF front < 0 THEN -1 ELSE 16 * front + d

\* str is "0x" followed by the hexadecimal digits of n, without leading zeros.
IsHexOf(str, n) ==
    /\ Len(str) >= 3
    /\ SubSeq(str, 1, 2) = "0x"
    /\ ParseHex(SubSeq(str, 3, Len(str))) = n
    /\ (Len(str) > 3 => SubSeq(str, 3, 3) # "0")

----------------------------------------------------------------------------
(* Properties. *)

\* C1 (completeness): for RANGE >= 1 and a known witness in 0..RANGE-1, the run
\* reaches verify() and verify() returns Ok with an empty failure list.
C1_Completeness ==
    (Ended /\ RANGE >= 1 /\ InRange) =>
        /\ pc = "verified"
        /\ run_result = "Ok"
        /\ verify_result = [ok |-> TRUE, failures |-> << >>]

C1_Witness ==
    /\ Satisfied
    /\ RANGE = 8
    /\ assigned_value = Known(5)

\* C2 (soundness, as claimed): for every known witness outside 0..RANGE-1,
\* verify() returns Err with exactly one failure, a ConstraintNotSatisfied.
C2_Soundness ==
    (Ended /\ IsKnown /\ ~InRange) =>
        /\ pc = "verified"
        /\ ~verify_result.ok
        /\ Len(verify_result.failures) = 1
        /\ verify_result.failures[1].kind = "ConstraintNotSatisfied"

\* Soundness where the fold is not empty: for RANGE >= 1 every known witness
\* outside 0..RANGE-1 yields exactly one ConstraintNotSatisfied failure.
SoundnessFromOne ==
    (Ended /\ RANGE >= 1 /\ IsKnown /\ ~InRange) =>
        /\ pc = "verified"
        /\ Len(verify_result.failures) = 1
        /\ verify_result.failures[1].kind = "ConstraintNotSatisfied"

\* C3 (selector gating): verify() reports no failure at a row where
\* q_range_check is not enabled, whatever that row's advice cell holds.
C3_SelectorGating ==
    pc = "verified" =>
        \A row \in Rows :
            ~selectors[q_range_check][row] =>
                \A i \in 1..Len(verify_result.failures) :
                    FailureRow(verify_result.failures[i]) # row

C3_Witness ==
    /\ pc = "verified"
    /\ RANGE >= 1
    /\ verify_result.ok
    /\ \E row \in Rows :
          /\ ~selectors[q_range_check][row]
          /\ advice[advice_column][row].tag = "Assigned"
          /\ advice[advice_column][row].v \notin 0..(RANGE - 1)

\* C4 (RANGE = 0, as claimed): with RANGE = 0 no witness is accepted.
C4_RangeZeroNeverSatisfied ==
    RANGE = 0 => ~Satisfied

\* C5 (RANGE = 1): with RANGE = 1 the run is satisfied iff the witness is the
\* field element 0.
C5_RangeOneForcesZero ==
    (Ended /\ RANGE = 1) => (Satisfied <=> assigned_value = Known(0))

C5_Witness ==
    /\ Satisfied
    /\ RANGE = 1
    /\ assigned_value = Known(0)

\* C6 (unknown witness): with an Unknown witness the run ends in an error and
\* never in a satisfied result, and the cell is left unassigned, not set to 0.
C6_UnknownNeverAccepted ==
    (~IsKnown /\ pc \notin {"new", "configured"}) =>
        /\ pc = "failed"
        /\ run_result = "Err"
        /\ ~Satisfied
        /\ \A row \in Rows : advice[advice_column][row] = Unassigned

C6_Witness ==
    /\ pc = "failed"
    /\ assigned_value = Unknown
    /\ RANGE = 8
    /\ selectors[q_range_check][0]

\* C8 (polynomial construction, as claimed): the registered expression is the
\* fold of i over 0..RANGE-1 from the seed value, of degree RANGE with roots
\* 0..RANGE-1.  Stated for RANGE >= 1, where the fold is not empty.
C8_FoldFromZero ==
    (pc # "new" /\ RANGE >= 1) =>
        LET poly == cs.gates[1].constraints[1].poly
        IN /\ IsChain(poly, 0, RANGE)
           /\ Degree(poly) = RANGE
           /\ RootSet(poly) = 0..(RANGE - 1)

\* C8 (amended): the registered expression is the fold of i over 1..RANGE-1
\* from the seed value; its degree is max(RANGE, 1) and its root set is
\* 0..max(RANGE, 1)-1.
C8_FoldFromOne ==
    pc # "new" =>
        LET poly == cs.gates[1].constraints[1].poly
        IN /\ Len(cs.gates) = 1
           /\ Len(cs.gates[1].constraints) = 1
           /\ IsChain(poly, 1, RANGE)
           /\ Degree(poly) = Max(RANGE, 1)
           /\ RootSet(poly) = 0..(Max(RANGE, 1) - 1)

C8_Witness ==
    /\ pc = "configured"
    /\ RANGE = 8
    /\ Degree(cs.gates[1].constraints[1].poly) = 8

\* C9 (failure record): when verify() returns Err, its failure list is the one
\* record naming gate 0 "range check", constraint 0 "range check", region 0
\* "Assign value", offset 0, and one cell: advice column 0 at rotation 0 with
\* the witness in hexadecimal ("0x16" for 22).
C9_FailureRecord ==
    (pc = "verified" /\ ~verify_result.ok) =>
        /\ Len(verify_result.failures) = 1
        /\ LET f == verify_result.failures[1]
           IN /\ f.kind = "ConstraintNotSatisfied"
              /\ f.constraint = [gate |-> [index |-> 0, name |-> "range check"],
                                 index |-> 0, name |-> "range check"]
              /\ f.location = [tag |-> "InRegion",
                               region |-> [index |-> 0, name |-> "Assign value"],
                               offset |-> 0]
              /\ Len(f.cell_values) = 1
              /\ f.cell_values[1].column = [column_type |-> "Advice", index |-> 0]
              /\ f.cell_values[1].rotation = 0
              /\ IsHexOf(f.cell_values[1].value, assigned_value.v)
              /\ (assigned_value.v = 22 => f.cell_values[1].value = "0x16")

C9_Witness ==
    /\ pc = "verified"
    /\ RANGE = 8
    /\ assigned_value = Known(22)
    /\ Len(verify_result.failures) = 1
    /\ verify_result.failures[1].cell_values[1].value = "0x16"

\* C10 (synthesis footprint): after synthesize one region "Assign value" is
\* open, q_range_check is on at row 0 only, assign_advice was called once, on
\* row 0 of the advice column, every other cell is unassigned, and the gate is
\* active at row 0 and at no other row.
C10_SynthesisFootprint ==
    pc \in {"synthesized", "verified", "failed"} =>
        /\ Len(regions) = 1
        /\ regions[1].name = "Assign value"
        /\ DOMAIN selectors = {q_range_check}
        /\ \A row \in Rows : selectors[q_range_check][row] <=> row = 0
        /\ assign_calls = << [column |-> 0, row |-> 0] >>
        /\ DOMAIN advice = {advice_column}
        /\ \A row \in Rows \ {0} : advice[advice_column][row] = Unassigned
        /\ (run_result = "Ok" =>
               advice[advice_column][0] = Assigned(assigned_value.v))
        /\ \A row \in Rows : Active(cs.gates[1], selectors, row) <=> row = 0

C10_Witness ==
    /\ pc = "verified"
    /\ RANGE = 8
    /\ selectors[q_range_check][0]
    /\ advice[advice_column][0] = Assigned(5)
    /\ advice[advice_column][NumRows - 1] = Unassigned

====
